---- MODULE Spec2Model ----
(***************************************************************************)
(* A model of the manyfmt crate: the Fmt<F> capability trait, its          *)
(* forwarding implementations for references, the Wrapper adapter with its *)
(* Debug and Display entry points, the refmt accessors, the Unquote format *)
(* and the documentation's example formats (Example, TomlTable).           *)
(*                                                                         *)
(* Text is a sequence of symbols.  The characters of a str value are       *)
(* one-character symbols; a literal piece of a format string is written by *)
(* one write_str call and is kept as one symbol.                           *)
(***************************************************************************)
EXTENDS Integers, Sequences, FiniteSets, TLC

\* ------------------------------------------------------------------ bounds
\* Deepest chain of references (and containers) around a value.
MaxDepth == 2
\* Wrappers a run may hold at once.
MaxWrappers == 2
\* Most symbols a bounded sink still has room for.
MaxRoom == 2

\* ------------------------------------------------------------------ text
Quote == "\""
Backslash == "\\"

Hello == <<"h", "e", "l", "l", "o">>
Redacted == <<"<", "r", "e", "d", "a", "c", "t", "e", "d", ">">>

\* A BTreeMap<&str, &str>: its entries in key order.
Entry(k, v) == [k |-> k, v |-> v]
OneEntry == <<Entry(<<"k">>, <<"h">>)>>
TwoEntries == <<Entry(<<"k">>, <<Quote>>), Entry(<<"n">>, <<>>)>>

\* ------------------------------------------------------------------ types
\* A type is its constructors outermost first: <<"&mut", "&", "str">> is
\* &mut &str.
RefKinds == {"&", "&mut"}
Selectors == {"Unquote", "TomlTable"}

IsRef(ty) == ty[1] \in RefKinds

\* str is the one dynamically sized type of the model.
Sized(ty) == ty # <<"str">>

\* Trait resolution of `T: Fmt<F>`: the implementations the crate ships
\* and the documentation's.  The forwarding implementations are declared
\* `impl<F, T: Fmt<F>>`, with no `?Sized`, so their T is Sized.
RECURSIVE Implements(_, _)
Implements(ty, f) ==
    CASE ty = <<"str">> -> f = "Unquote"
      [] ty = <<"Table">> -> f = "TomlTable"
      [] IsRef(ty) -> Sized(Tail(ty)) /\ Implements(Tail(ty), f)
      [] OTHER -> FALSE

HasSomeFmt(ty) == \E f \in Selectors : Implements(ty, f)

VARIABLES
    store,      \* the cells of memory: values, references, containers
    wrappers,   \* the Wrappers alive
    sink,       \* the sink the last formatting call was given
    last        \* what the last operation did and returned

vars == <<store, wrappers, sink, last>>

Addrs == 1..Len(store)

TypeOf(a) == store[a].ty

\* ------------------------------------------------------------------ cells
StrCell(s) == [ty |-> <<"str">>, text |-> s, ref |-> 0, entries |-> <<>>]
TableCell(es) == [ty |-> <<"Table">>, text |-> <<>>, ref |-> 0, entries |-> es]
Cell(ty, a) == [ty |-> ty, text |-> <<>>, ref |-> a, entries |-> <<>>]

\* What is put around a value: `&`, `&mut`, or a Container that derefs to
\* it (Deref::Target = str).
Layers == RefKinds \cup {"Container"}

RECURSIVE ChainsOfLen(_)
ChainsOfLen(n) ==
    IF n = 0 THEN {<<>>}
    ELSE {Append(ks, k) : ks \in ChainsOfLen(n - 1), k \in Layers}

Chains(v) ==
    {ks \in UNION {ChainsOfLen(n) : n \in 0..MaxDepth} :
        \A i \in 1..Len(ks) :
            ks[i] = "Container" => i = 1 /\ v.ty = <<"str">>}

\* The type of the place i layers up: &T and &mut T around the type below;
\* Container is a type of its own.
RECURSIVE TypeUp(_, _, _)
TypeUp(v, ks, i) ==
    IF i = 0 THEN v.ty
    ELSE IF ks[i] = "Container" THEN <<"Container">>
    ELSE <<ks[i]>> \o TypeUp(v, ks, i - 1)

\* Two values of one type side by side, a first layer around each, and
\* the further layers around the first value's: cells 1 and 2 are the
\* values, cells 3 and 4 refer to them, cell 5 to cell 3, and each later
\* cell to the one before it.
Memory(v1, v2, ks) ==
    [a \in 1..(IF ks = <<>> THEN 2 ELSE 3 + Len(ks)) |->
        IF a = 1 THEN v1
        ELSE IF a = 2 THEN v2
        ELSE IF a <= 4 THEN Cell(TypeUp(v1, ks, 1), a - 2)
        ELSE Cell(TypeUp(v1, ks, a - 3), IF a = 5 THEN 3 ELSE a - 1)]

\* The pairs of values a run starts from, equal and unequal ones of either
\* type: the literals of the tests and of the documentation, the empty
\* string, and a string of the characters the default Debug escapes.
Pairs ==
    {<<StrCell(<<>>), StrCell(<<"h">>)>>,
     <<StrCell(<<Quote, Backslash>>), StrCell(<<Quote, Backslash>>)>>,
     <<StrCell(Hello), StrCell(Redacted)>>,
     <<TableCell(OneEntry), TableCell(OneEntry)>>,
     <<TableCell(OneEntry), TableCell(TwoEntries)>>}

\* The value a chain of references ends at.
RECURSIVE Referent(_)
Referent(a) == IF IsRef(TypeOf(a)) THEN Referent(store[a].ref) ELSE a

\* PartialEq of two values of one type: references compare their referents.
RECURSIVE ValueEq(_, _)
ValueEq(a, b) ==
    IF IsRef(TypeOf(a)) THEN ValueEq(store[a].ref, store[b].ref)
    ELSE store[a].text = store[b].text /\ store[a].entries = store[b].entries

\* ------------------------------------------------------------------ sink
\* A formatter over a sink: the text the sink holds, the symbols a bounded
\* sink holds at most, the result so far, the write_str calls the sink
\* received, and the Fmt::fmt calls made with their nesting depth.
Formatter(pre, bounded, cap) ==
    [out |-> pre, bounded |-> bounded, cap |-> cap, res |-> "Ok",
     writes |-> <<>>, calls |-> <<>>, depth |-> 0]

\* fmt::Write::write_str of the sink.  What a sink does with a write it
\* rejects is the sink's own: the bounded sink here rejects, whole, a write
\* that does not fit, and accepts a later one that does.
write_str(fm, s) ==
    IF fm.bounded /\ Len(fm.out) + Len(s) > fm.cap
    THEN [fm EXCEPT !.res = "Err",
                    !.writes = Append(@, [text |-> s, ok |-> FALSE])]
    ELSE [fm EXCEPT !.res = "Ok",
                    !.out = @ \o s,
                    !.writes = Append(@, [text |-> s, ok |-> TRUE])]

\* A `?` that does not return: the next write is made whatever came before.
Try_unchecked(fm, s) == write_str(fm, s)

\* `write_str(s)?` after earlier `?`s: not reached once one has returned.
Try(fm, s) == IF fm.res = "Err" THEN fm ELSE write_str(fm, s)

\* str's Debug: the text between quotes, quotes and backslashes escaped.
RECURSIVE Escape(_)
Escape(s) ==
    IF s = <<>> THEN <<>>
    ELSE (IF Head(s) \in {Quote, Backslash} THEN <<Backslash, Head(s)>>
          ELSE <<Head(s)>>) \o Escape(Tail(s))

str_Debug_fmt(text, fm) ==
    Try(Try(Try(fm, <<Quote>>), Escape(text)), <<Quote>>)

\* write!(fmt, "{self:?}"): the text quoted and escaped.
Unquote_fmt_quoted(text, fm) == str_Debug_fmt(text, fm)

\* A format that rejects the empty string by returning Err.
Unquote_fmt_rejecting(text, fm) ==
    IF text = <<>> THEN [fm EXCEPT !.res = "Err"] ELSE write_str(fm, text)

\* impl Fmt<Unquote> for str: write!(fmt, "{self}") is one write_str of the
\* text, under the default options of a fresh format spec.
Unquote_fmt(text, fm) == write_str(fm, text)

\* writeln!(fmt, "{key} = {value:?}")?: the key, " = ", the value's Debug
\* and the line end, each written unless an earlier write failed.
TomlTable_entry(e, fm) ==
    LET keyed == Try(Try(fm, e.k), <<" = ">>)
        valued == IF keyed.res = "Err" THEN keyed
                  ELSE str_Debug_fmt(e.v, keyed)
    IN  Try(valued, <<"\n">>)

\* impl Fmt<TomlTable> for BTreeMap<S, T>: the entries in key order, the
\* loop left at the first Err.
RECURSIVE TomlTable_fmt(_, _)
TomlTable_fmt(es, fm) ==
    IF es = <<>> \/ fm.res = "Err" THEN fm
    ELSE TomlTable_fmt(Tail(es), TomlTable_entry(Head(es), fm))

\* Entering and leaving a call of Fmt::fmt: the call is logged with its
\* nesting depth, its arguments and the sink's text as it is made.
Enter(fm, a, f) ==
    [fm EXCEPT !.depth = @ + 1,
               !.calls = Append(@, [depth |-> fm.depth + 1, value |-> a,
                                    fopt |-> f, out |-> fm.out])]

Leave(fm) == [fm EXCEPT !.depth = @ - 1]

RECURSIVE Fmt_fmt(_, _, _)

\* impl Fmt<F> for &T: <T as Fmt<F>>::fmt(&**self, fmt, fopt).
Ref_fmt(a, fm, f) == Fmt_fmt(store[a].ref, fm, f)

\* impl Fmt<F> for &mut T: <T as Fmt<F>>::fmt(&**self, fmt, fopt).
RefMut_fmt(a, fm, f) == Fmt_fmt(store[a].ref, fm, f)

\* <T as Fmt<F>>::fmt(value, fmt, fopt): the implementation for T.
Fmt_fmt(a, fm, f) ==
    Leave(CASE TypeOf(a) = <<"str">> ->
                   Unquote_fmt(store[a].text, Enter(fm, a, f))
            [] TypeOf(a) = <<"Table">> ->
                   TomlTable_fmt(store[a].entries, Enter(fm, a, f))
            [] TypeOf(a)[1] = "&" -> Ref_fmt(a, Enter(fm, a, f), f)
            [] TypeOf(a)[1] = "&mut" -> RefMut_fmt(a, Enter(fm, a, f), f)
            [] OTHER -> Enter(fm, a, f))

\* ------------------------------------------------------------------ Wrapper
Wrapper(f, a) == [value |-> a, fopt |-> f]

\* impl fmt::Debug for Wrapper.
Wrapper_Debug_fmt(w, fm) == Fmt_fmt(w.value, fm, w.fopt)

\* A Display that formats the value twice.
Wrapper_Display_fmt_twice(w, fm) ==
    Fmt_fmt(w.value, Fmt_fmt(w.value, fm, w.fopt), w.fopt)

\* A Display that writes a tag of its own before the value.
Wrapper_Display_fmt_tagged(w, fm) ==
    Fmt_fmt(w.value, write_str(fm, <<"#">>), w.fopt)

\* impl fmt::Display for Wrapper.
Wrapper_Display_fmt(w, fm) == Fmt_fmt(w.value, fm, w.fopt)

\* An equality of the borrows' addresses.
Wrapper_eq_identity(w1, w2) == w1.value = w2.value /\ w1.fopt = w2.fopt

\* derive(PartialEq) for Wrapper: the fields in order, each by the
\* PartialEq of a reference, which compares the referents.
Wrapper_eq(w1, w2) == ValueEq(w1.value, w2.value) /\ w1.fopt = w2.fopt

\* A lookup that stops at the receiver's own type: what a Refmt without
\* the parameter F, implemented for every type, would give.
MethodSelf_noDeref(a) == IF TypeOf(a)[1] = "&" THEN store[a].ref ELSE a

\* A lookup that tries autoref before the by-value step.
RECURSIVE MethodSelf_autorefFirst(_)
MethodSelf_autorefFirst(a) ==
    CASE HasSomeFmt(TypeOf(a)) -> a
      [] TypeOf(a)[1] = "&" /\ HasSomeFmt(Tail(TypeOf(a))) -> store[a].ref
      [] IsRef(TypeOf(a)) \/ TypeOf(a) = <<"Container">> ->
             MethodSelf_autorefFirst(store[a].ref)
      [] OTHER -> 0

\* Method lookup of `c.refmt(..)` on a receiver place: at each step of the
\* receiver's dereference chain, a method taking `&Self` is found by value
\* when the step's type is `&U` and U implements Refmt<_>, then by
\* autoref when the step's type itself does; Refmt<F> is implemented for
\* exactly the types with Fmt<F>.  The address of Self, or 0.
RECURSIVE MethodSelf(_)
MethodSelf(a) ==
    CASE TypeOf(a)[1] = "&" /\ HasSomeFmt(Tail(TypeOf(a))) -> store[a].ref
      [] HasSomeFmt(TypeOf(a)) -> a
      [] IsRef(TypeOf(a)) \/ TypeOf(a) = <<"Container">> ->
             MethodSelf(store[a].ref)
      [] OTHER -> 0

\* impl fmt::Debug for Example: debug_struct("Example")
\* .field("private_key", &"<redacted>".refmt(&Unquote)).finish(), the
\* literal at a.  DebugStruct keeps the first Err and skips what follows.
Example_Debug_fmt(a, fm) ==
    LET named == write_str(fm, <<"Example">>)
        keyed == Try(Try(Try(named, <<" { ">>), <<"private_key">>), <<": ">>)
        valued == IF keyed.res = "Err" THEN keyed
                  ELSE Wrapper_Debug_fmt(Wrapper("Unquote", a), keyed)
    IN  Try(valued, <<" }">>)

\* ------------------------------------------------------------------ actions
NoCall == [op |-> "none"]

Init ==
    /\ \E p \in Pairs :
       \E ks \in Chains(p[1]) : store = Memory(p[1], p[2], ks)
    /\ wrappers = {}
    /\ sink = [out |-> <<>>, bounded |-> FALSE, cap |-> 0]
    /\ last = NoCall

\* The free function refmt(fopt, value), where T: Fmt<F>.
refmt(f, a) ==
    /\ Implements(TypeOf(a), f)
    /\ Cardinality(wrappers \cup {Wrapper(f, a)}) <= MaxWrappers
    /\ wrappers' = wrappers \cup {Wrapper(f, a)}
    /\ last' = [op |-> "refmt", w |-> Wrapper(f, a), recv |-> a]
    /\ UNCHANGED <<store, sink>>

\* The method c.refmt(fopt) of the extension trait Refmt<F>, on the
\* receiver place c.
Refmt_refmt(c, f) ==
    /\ MethodSelf(c) # 0
    /\ Implements(TypeOf(MethodSelf(c)), f)
    /\ Cardinality(wrappers \cup {Wrapper(f, MethodSelf(c))}) <= MaxWrappers
    /\ wrappers' = wrappers \cup {Wrapper(f, MethodSelf(c))}
    /\ last' = [op |-> "Refmt::refmt", w |-> Wrapper(f, MethodSelf(c)),
                recv |-> c]
    /\ UNCHANGED <<store, sink>>

\* The value behind a borrow, through every reference.
Deep(a) ==
    [ty |-> TypeOf(a), text |-> store[Referent(a)].text,
     entries |-> store[Referent(a)].entries]

\* What a formatting call leaves behind; `again` when the operation before
\* it was a formatting call of an equal value under the same selector into
\* a sink of the same contents and capacity.
Formatted(proto, w, given, fm) ==
    [op |-> "fmt", proto |-> proto, w |-> w, pre |-> given.out,
     out |-> fm.out, res |-> fm.res, writes |-> fm.writes, calls |-> fm.calls,
     again |-> /\ last.op = "fmt"
               /\ Deep(last.w.value) = Deep(w.value)
               /\ last.w.fopt = w.fopt
               /\ last.pre = given.out
               /\ sink.bounded = given.bounded
               /\ sink.cap = given.cap]

SinkOf(fm) == [out |-> fm.out, bounded |-> fm.bounded, cap |-> fm.cap]

\* The sinks a formatting call is given: an empty String, which accepts
\* every write, and a buffer that holds "x" and has room for a few symbols.
Sinks ==
    {Formatter(<<>>, FALSE, 0)}
        \cup {Formatter(<<"x">>, TRUE, 1 + room) : room \in 0..MaxRoom}

\* A formatting call that takes the Wrapper with it.
FormatDebug_consuming(w, fm) ==
    /\ w \in wrappers
    /\ sink' = SinkOf(Wrapper_Debug_fmt(w, fm))
    /\ last' = Formatted("Debug", w, fm, Wrapper_Debug_fmt(w, fm))
    /\ wrappers' = wrappers \ {w}
    /\ UNCHANGED store

\* `{:?}` of a Wrapper into a sink.
FormatDebug(w, fm) ==
    /\ w \in wrappers
    /\ LET done == Wrapper_Debug_fmt(w, fm) IN
           /\ sink' = SinkOf(done)
           /\ last' = Formatted("Debug", w, fm, done)
    /\ UNCHANGED <<store, wrappers>>

\* `{}` of a Wrapper into a sink.
FormatDisplay(w, fm) ==
    /\ w \in wrappers
    /\ LET done == Wrapper_Display_fmt(w, fm) IN
           /\ sink' = SinkOf(done)
           /\ last' = Formatted("Display", w, fm, done)
    /\ UNCHANGED <<store, wrappers>>

\* format!("{s:?}") of the documentation's Example, its literal at a.
FormatExample(a, fm) ==
    /\ TypeOf(a) = <<"str">>
    /\ LET done == Example_Debug_fmt(a, fm) IN
           /\ sink' = SinkOf(done)
           /\ last' = [op |-> "Example", w |-> Wrapper("Unquote", a),
                       pre |-> fm.out, out |-> done.out, res |-> done.res,
                       writes |-> done.writes, calls |-> done.calls]
    /\ UNCHANGED <<store, wrappers>>

\* w1 == w2, for two Wrappers of the same types.
Compare(w1, w2) ==
    /\ w1 \in wrappers /\ w2 \in wrappers
    /\ TypeOf(w1.value) = TypeOf(w2.value)
    /\ last' = [op |-> "eq", w |-> w1, w2 |-> w2, res |-> Wrapper_eq(w1, w2)]
    /\ UNCHANGED <<store, wrappers, sink>>

Next ==
    \/ \E f \in Selectors, a \in Addrs : refmt(f, a)
    \/ \E f \in Selectors, c \in Addrs : Refmt_refmt(c, f)
    \/ \E w \in wrappers, fm \in Sinks : FormatDebug(w, fm)
    \/ \E w \in wrappers, fm \in Sinks : FormatDisplay(w, fm)
    \/ \E a \in Addrs, fm \in Sinks : FormatExample(a, fm)
    \/ \E w1 \in wrappers, w2 \in wrappers : Compare(w1, w2)

Spec == Init /\ [][Next]_vars

\* ------------------------------------------------------------------ helpers
RECURSIVE Concat(_)
Concat(ws) == IF ws = <<>> THEN <<>> ELSE Head(ws).text \o Concat(Tail(ws))

IsPrefix(s, u) == Len(s) <= Len(u) /\ SubSeq(u, 1, Len(s)) = s

Failed(ws) == {i \in 1..Len(ws) : ~ws[i].ok}

\* The sink the last formatting call was given, as it was given.
Given == Formatter(last.pre, sink.bounded, sink.cap)

\* The value a place dereferences to, through references and Containers.
RECURSIVE Target(_)
Target(a) == IF store[a].ref = 0 THEN a ELSE Target(store[a].ref)

OnlyRefs(ty) == \A i \in 1..(Len(ty) - 1) : ty[i] \in RefKinds

\* ------------------------------------------------------------------ claims

\* C1: Wrapper's Debug and Display each make exactly one call of Fmt::fmt,
\* with the held value, the supplied sink and the held selector, and return
\* its result: text and result are those of calling Fmt::fmt directly.
C1_WrapperForwardsOnce ==
    last.op = "fmt" =>
        /\ Cardinality({i \in 1..Len(last.calls) : last.calls[i].depth = 1}) = 1
        /\ last.calls[1] = [depth |-> 1, value |-> last.w.value,
                            fopt |-> last.w.fopt, out |-> last.pre]
        /\ LET direct == Fmt_fmt(last.w.value, Given, last.w.fopt) IN
               /\ last.out = direct.out
               /\ last.res = direct.res
               /\ last.writes = direct.writes
        /\ sink.out = last.out

C1_Witness ==
    /\ last.op = "fmt"
    /\ last.proto = "Display"
    /\ last.res = "Err"
    /\ Len(last.calls) > 1
    /\ Len(last.out) > Len(last.pre)

\* C2: a formatting call through a Wrapper, whatever the shipped format and
\* the forwarding layers, returns Err if and only if a write to the sink
\* returned Err; into a sink that accepts every write it returns Ok.
C2_SinkFailureOnly ==
    last.op = "fmt" =>
        /\ last.res = "Err" <=> Failed(last.writes) # {}
        /\ ~sink.bounded => last.res = "Ok"

C2_Witness ==
    /\ last.op = "fmt"
    /\ TypeOf(last.w.value) = <<"str">>
    /\ store[last.w.value].text = <<>>
    /\ last.res = "Ok"
    /\ sink.bounded

\* C3: every chain of references around a value whose type implements
\* Fmt<F> implements Fmt<F> too, and formats to the text and result of the
\* value itself.
C3_ReferenceTransparency ==
    \A a \in Addrs : \A f \in Selectors : \A fm \in Sinks :
        (OnlyRefs(TypeOf(a)) /\ Implements(TypeOf(Referent(a)), f)) =>
            /\ Implements(TypeOf(a), f)
            /\ Fmt_fmt(a, fm, f).out = Fmt_fmt(Referent(a), fm, f).out
            /\ Fmt_fmt(a, fm, f).res = Fmt_fmt(Referent(a), fm, f).res

\* C4: c.refmt(&f) on a place that dereferences, through references and a
\* Container, to a value of a type with Fmt<F> resolves to that value; the
\* Wrapper holds it and renders its text.
C4_DerefPropagation ==
    /\ \A c \in Addrs :
           TypeOf(c)[Len(TypeOf(c))] = "Container" =>
               /\ MethodSelf(c) = Target(c)
               /\ Implements(TypeOf(MethodSelf(c)), "Unquote")
    /\ (last.op = "Refmt::refmt" /\ TypeOf(last.recv) = <<"Container">>) =>
           /\ last.w = Wrapper("Unquote", store[last.recv].ref)
           /\ last.w \in wrappers
           /\ Wrapper_Debug_fmt(last.w, Formatter(<<>>, FALSE, 0)).out
                  = store[store[last.recv].ref].text

C4_Witness ==
    /\ last.op = "Refmt::refmt"
    /\ TypeOf(last.recv) = <<"Container">>
    /\ store[last.w.value].text = Hello

\* C5: Unquote writes a str verbatim, in one write, with no quotes and no
\* escapes, also as a field of a debug_struct.
C5_UnquoteVerbatim ==
    /\ (last.op = "fmt" /\ TypeOf(last.w.value) = <<"str">>) =>
           /\ Len(last.writes) = 1
           /\ last.writes[1].text = store[last.w.value].text
           /\ last.res = "Ok" => last.out = last.pre \o store[last.w.value].text
    /\ (last.op = "Example" /\ last.res = "Ok") =>
           last.out = last.pre \o <<"Example", " { ", "private_key", ": ">>
                          \o store[last.w.value].text \o <<" }">>

C5_Witness ==
    /\ last.op = "Example"
    /\ last.res = "Ok"
    /\ store[last.w.value].text = Redacted

C7_SameWrapper ==
    (last.op = "Refmt::refmt" /\ Implements(TypeOf(last.recv), last.w.fopt)) =>
        last.w = Wrapper(last.w.fopt, last.recv)

\* C7, amended: both forms succeed and the two Wrappers render the same
\* text with the same result; they hold the same value and selector unless
\* the type of v is a shared reference, for which the method's Wrapper
\* holds the referent of v.
C7_SameRendering ==
    (last.op = "Refmt::refmt" /\ Implements(TypeOf(last.recv), last.w.fopt)) =>
        /\ last.w \in wrappers
        /\ last.w = Wrapper(last.w.fopt,
                            IF TypeOf(last.recv)[1] = "&"
                            THEN store[last.recv].ref ELSE last.recv)
        /\ \A fm \in Sinks :
               /\ Wrapper_Debug_fmt(last.w, fm).out
                      = Wrapper_Debug_fmt(Wrapper(last.w.fopt, last.recv), fm).out
               /\ Wrapper_Debug_fmt(last.w, fm).res
                      = Wrapper_Debug_fmt(Wrapper(last.w.fopt, last.recv), fm).res

C7_Witness ==
    /\ last.op = "Refmt::refmt"
    /\ Implements(TypeOf(last.recv), last.w.fopt)
    /\ TypeOf(last.recv)[1] = "&"
    /\ last.w.value # last.recv

\* C8: a formatting call of an equal value under the same selector into a
\* sink of the same contents and capacity as the call before it, through
\* either protocol and the same or another Wrapper, writes the same text
\* and returns the same result.
C8_Determinism ==
    [][(last'.op = "fmt" /\ last'.again) =>
           /\ last'.out = last.out
           /\ last'.res = last.res
           /\ last'.writes = last.writes]_vars

C8_Witness ==
    /\ last.op = "fmt"
    /\ last.again
    /\ last.proto = "Display"
    /\ last.res = "Err"

\* C9: once a write to the sink fails, the call makes no further write and
\* returns Err through every forwarding layer; the sink holds what it held
\* and what was written before the failing write, a prefix of what a sink
\* that never fails receives.
C9_FailureStops ==
    (last.op \in {"fmt", "Example"} /\ Failed(last.writes) # {}) =>
        /\ Failed(last.writes) = {Len(last.writes)}
        /\ last.res = "Err"
        /\ last.out = last.pre \o Concat(SubSeq(last.writes, 1,
                                                 Len(last.writes) - 1))
        /\ sink.out = last.out
        /\ last.op = "fmt" =>
               IsPrefix(last.out,
                        Wrapper_Debug_fmt(last.w,
                            Formatter(last.pre, FALSE, 0)).out)
        /\ last.op = "Example" =>
               IsPrefix(last.out,
                        Example_Debug_fmt(last.w.value,
                            Formatter(last.pre, FALSE, 0)).out)

C9_Witness ==
    /\ last.op = "fmt"
    /\ last.res = "Err"
    /\ Len(last.calls) > 2
    /\ Len(last.writes) > 2

\* C10: building a Wrapper writes to no sink and changes no value; a
\* formatting call changes the sink only, and leaves the values and the
\* Wrappers, the formatted one among them, as they were.
C10_Frame ==
    [][/\ last'.op \in {"refmt", "Refmt::refmt"} =>
              /\ sink' = sink
              /\ store' = store
              /\ wrappers' = wrappers \cup {last'.w}
       /\ last'.op \in {"fmt", "Example"} =>
              /\ store' = store
              /\ wrappers' = wrappers
       /\ last'.op = "fmt" => last'.w \in wrappers']_vars

C10_Witness ==
    /\ last.op = "fmt"
    /\ last.again
    /\ last.proto = "Debug"
    /\ Cardinality(wrappers) = MaxWrappers
====
